---- MODULE Spec2Model ----
(***************************************************************************)
(* Loan monitoring pipeline of loan_monitor.py: main() connects to the     *)
(* database, fetch_due_loans selects and derives the report table,         *)
(* generate_excel_report renders the workbook, send_email delivers it and  *)
(* main() optionally removes the local copy.                               *)
(*                                                                         *)
(* A Python date is its day ordinal.  The text the database stores in     *)
(* loans.due_date ("YYYY-MM-DD") is the triple <<year, month, day>> of its *)
(* zero-padded fields; SQL compares it as text (field by field, left to    *)
(* right), Python parses it into a date.  A stored text whose fields are   *)
(* no calendar date (month 13) is a malformed row.                         *)
(* A stored row is the row of the three-table join: the loan with its      *)
(* customer and branch; the columns no rule reads (name, amounts, phone,   *)
(* email, officer/branch) travel with the Loan ID and are not modelled.    *)
(* loan_status and due_date are stored texts (not NULL).                   *)
(***************************************************************************)
EXTENDS Integers, Sequences, FiniteSets, TLC

\* ---- bounds ----------------------------------------------------------
MaxLoans == 2
MaxTicks == 1

\* ---- calendar ---------------------------------------------------------
\* A datetime.date is its proleptic ordinal (date.toordinal()); the text of
\* a date is the triple of its fields.
IsLeap(y) == (y % 4 = 0) /\ ((y % 100 # 0) \/ (y % 400 = 0))

DaysInMonth(y, m) ==
    IF m = 2 THEN (IF IsLeap(y) THEN 29 ELSE 28)
    ELSE IF m \in {4, 6, 9, 11} THEN 30 ELSE 31

\* days of a common year before the first of each month
MonthStarts == <<0, 31, 59, 90, 120, 151, 181, 212, 243, 273, 304, 334>>

DaysBeforeMonth(y, m) == MonthStarts[m] + (IF m > 2 /\ IsLeap(y) THEN 1 ELSE 0)

DaysBeforeYear(y) ==
    (y - 1) * 365 + ((y - 1) \div 4) - ((y - 1) \div 100) + ((y - 1) \div 400)

\* pd.to_datetime accepts the text only when it names a calendar date
ValidDate(s) ==
    /\ s[2] \in 1..12
    /\ s[3] >= 1
    /\ s[3] <= DaysInMonth(s[1], s[2])

\* pd.to_datetime(text).dt.date, for a text that names a date
ParseDate(s) == DaysBeforeYear(s[1]) + DaysBeforeMonth(s[1], s[2]) + s[3]

\* str(date) and strftime: the fields of the date (year from the 400-, 100-,
\* 4- and 1-year cycles, month from the day of the year)
IsoText(n) ==
    LET n0   == n - 1
        n400 == n0 \div 146097
        r400 == n0 % 146097
        n100 == r400 \div 36524
        r100 == r400 % 36524
        n4   == r100 \div 1461
        r4   == r100 % 1461
        n1   == r4 \div 365
        r1   == r4 % 365
        y    == n400 * 400 + n100 * 100 + n4 * 4 + n1 + 1
        est  == (r1 + 50) \div 32
        m    == IF DaysBeforeMonth(y, est) > r1 THEN est - 1 ELSE est
    IN  IF n1 = 4 \/ n100 = 4
        THEN <<y - 1, 12, 31>>
        ELSE <<y, m, r1 - DaysBeforeMonth(y, m) + 1>>

\* today + timedelta(days=n)
AddDays(d, n) == d + n

\* (d - today).days
DaysBetween(d, t) == d - t

\* SQL text comparison of two "YYYY-MM-DD" strings
StrLE(a, b) ==
    \/ a[1] < b[1]
    \/ a[1] = b[1] /\ a[2] < b[2]
    \/ a[1] = b[1] /\ a[2] = b[2] /\ a[3] <= b[3]

\* ---- inputs -----------------------------------------------------------
StartDate == ParseDate(<<2023, 12, 28>>)

Statuses == {"Active", "Overdue", "Paid", "Defaulted"}

\* stored due_date texts, relative to StartDate: two days past, the day
\* itself, +3, +5, +9 (in the next year), and a text that names no date
DueTexts ==
    { <<2023, 12, 26>>, <<2023, 12, 28>>, <<2023, 12, 31>>,
      <<2024, 1, 2>>, <<2024, 1, 6>>, <<2023, 13, 1>> }

Windows == {0, 7, 10}

\* stored rows: every due date with status Active; status and due date
\* disagreeing both ways; a paid loan inside every window; a status the
\* code does not name, due in two days
LoanRow ==
    [due : DueTexts, status : {"Active"}]
    \cup [due : {<<2023, 12, 26>>, <<2024, 1, 2>>}, status : {"Overdue"}]
    \cup [due : {<<2023, 12, 28>>}, status : {"Paid"}]
    \cup [due : {<<2023, 12, 30>>}, status : {"Defaulted"}]

\* the loans table: Loan ID -> stored row
Tables == UNION { [1..n -> LoanRow] : n \in 0..MaxLoans }

Configs == [days_ahead : Windows, include_overdue : BOOLEAN, save_local_copy : BOOLEAN]

NoDate == 0
NoPath == <<0, 0, 0>>

VARIABLES
    loans,        \* database table, Loan ID -> [due, status]
    cfg,          \* config.ini [REPORT] values read by main
    clock,        \* what date.today() returns now
    ticks,        \* midnights passed since the run started
    pc,           \* position of main
    outcome,      \* "running", "success" (main returned), "failure" (main raised)
    error,        \* stage whose exception left main, or "none"
    today,        \* local `today` of fetch_due_loans
    raw,          \* rows pd.read_sql_query returned, in the order returned
    df,           \* DataFrame fetch_due_loans returned
    report_path,  \* path generate_excel_report returned (its date stamp)
    files,        \* report files on disk (by date stamp)
    sheet,        \* data rows of the detail sheet
    summary,      \* counts of the Summary sheet
    outbox,       \* messages handed to sendmail
    smtp_log,     \* SMTP commands issued by send_email
    called,       \* functions main has invoked
    header,       \* header row (row 4) of the detail sheet
    other,        \* a second run of main sharing reports/ (NoOtherRun: none)
    mail          \* an SMTP session stepped command by command (NoSession: none)

vars == <<loans, cfg, clock, ticks, pc, outcome, error, today, raw, df,
          report_path, files, sheet, summary, outbox, smtp_log, called,
          header, other, mail>>

NoSummary ==
    [total |-> 0, active |-> 0, overdue |-> 0, due_today |-> 0,
     due_1_3 |-> 0, due_4_7 |-> 0, already_overdue |-> 0]

\* no second run, no stepped SMTP session
NoOtherRun == [pc |-> "absent", path |-> NoPath, save_local_copy |-> TRUE]
NoSession ==
    [script |-> "none", use_tls |-> TRUE, port |-> 587, log |-> <<>>,
     state |-> "idle"]

\* main is about to start: nothing fetched, rendered or sent
InitPipeline ==
    /\ loans \in Tables
    /\ cfg \in Configs
    /\ clock = StartDate
    /\ ticks = 0
    /\ pc = "start"
    /\ outcome = "running"
    /\ error = "none"
    /\ today = NoDate
    /\ raw = <<>>
    /\ df = <<>>
    /\ report_path = NoPath
    /\ files = {}
    /\ sheet = <<>>
    /\ summary = NoSummary
    /\ outbox = <<>>
    /\ smtp_log = <<>>
    /\ called = {}
    /\ header = <<>>

Init ==
    /\ InitPipeline
    /\ other = NoOtherRun
    /\ mail = NoSession

\* an exception leaving main at the given stage
Raise(stage) ==
    /\ pc' = "done"
    /\ outcome' = "failure"
    /\ error' = stage

\* ---- the clock --------------------------------------------------------
\* midnight passes while the run is under way
Tick ==
    /\ pc # "done"
    /\ ticks < MaxTicks
    /\ clock' = AddDays(clock, 1)
    /\ ticks' = ticks + 1
    /\ UNCHANGED <<other, mail, header, loans, cfg, pc, outcome, error, today, raw, df, report_path,
                   files, sheet, summary, outbox, smtp_log, called>>

\* ---- main: get_db_connection -------------------------------------------
GetDbConnection ==
    /\ pc = "start"
    /\ \/ /\ pc' = "connected"
          /\ UNCHANGED <<outcome, error>>
       \/ Raise("connect")
    /\ UNCHANGED <<other, mail, header, loans, cfg, clock, ticks, today, raw, df, report_path,
                   files, sheet, summary, outbox, smtp_log, called>>

\* ---- fetch_due_loans: the query --------------------------------------
\* WHERE <due_filter> AND l.loan_status != 'Paid', parameters as text
DueFilter_WindowOnly(due, today_text, cutoff_text, include_overdue) ==
    StrLE(today_text, due) /\ StrLE(due, cutoff_text)

DueFilter(due, today_text, cutoff_text, include_overdue) ==
    IF include_overdue
    THEN StrLE(due, cutoff_text)
    ELSE StrLE(today_text, due) /\ StrLE(due, cutoff_text)

NotPaid(status) == status # "Paid"

Selected(t, c) ==
    LET cutoff == AddDays(t, c.days_ahead)
    IN  { id \in DOMAIN loans :
            /\ DueFilter(loans[id].due, IsoText(t), IsoText(cutoff), c.include_overdue)
            /\ NotPaid(loans[id].status) }

\* ORDER BY l.due_date ASC: the order of rows with equal due_date is the
\* database's choice
OrderedByDue_Unordered(s) == TRUE

OrderedByDue(s) ==
    \A i \in 1..(Len(s) - 1) : StrLE(loans[s[i]].due, loans[s[i + 1]].due)

QueryResults(ids) ==
    { s \in [1..Cardinality(ids) -> ids] :
        /\ \A i, j \in DOMAIN s : i # j => s[i] # s[j]
        /\ OrderedByDue(s) }

RawRow(id) == [id |-> id, due |-> loans[id].due, status |-> loans[id].status]

FetchQuery ==
    /\ pc = "connected"
    /\ today' = clock
    /\ \/ /\ \E s \in QueryResults(Selected(clock, cfg)) :
                raw' = [i \in DOMAIN s |-> RawRow(s[i])]
          /\ pc' = "queried"
          /\ UNCHANGED <<outcome, error>>
       \/ /\ Raise("query")
          /\ UNCHANGED raw
    /\ UNCHANGED <<other, mail, header, loans, cfg, clock, ticks, df, report_path, files, sheet,
                   summary, outbox, smtp_log, called>>

\* ---- fetch_due_loans: derived columns --------------------------------
\* columns of the SELECT list
QueryColumns ==
    <<"Customer Name", "Loan ID", "Amount Borrowed", "Outstanding Balance",
      "Due Date", "Phone Number", "Email", "Loan Officer", "Branch",
      "Loan Status">>

\* columns after "Days Remaining" and "Loan Officer / Branch" are added and
\* "Loan Officer", "Branch" dropped
DerivedColumns ==
    LET Kept(c) == c \notin {"Loan Officer", "Branch"}
    IN  SelectSeq(QueryColumns \o <<"Days Remaining", "Loan Officer / Branch">>, Kept)

ReportColumns_DaysBeforeDue ==
    <<"Customer Name", "Loan ID", "Amount Borrowed", "Outstanding Balance",
      "Days Remaining", "Due Date", "Phone Number", "Email",
      "Loan Officer / Branch", "Loan Status">>

\* the list df is re-indexed with
ReportColumns ==
    <<"Customer Name", "Loan ID", "Amount Borrowed", "Outstanding Balance",
      "Due Date", "Days Remaining", "Phone Number", "Email",
      "Loan Officer / Branch", "Loan Status">>

Range(q) == { q[i] : i \in DOMAIN q }

\* df.columns of the DataFrame returned (a column the frame lacks would be a
\* KeyError)
DfColumns ==
    IF Range(ReportColumns) \subseteq Range(DerivedColumns)
    THEN ReportColumns
    ELSE <<"KeyError">>

DaysRemaining_PerRowToday(due, t) == DaysBetween(due, clock)

DaysRemaining(due, t) == DaysBetween(due, t)

DeriveRow(r, t) ==
    [id |-> r.id, due |-> ParseDate(r.due),
     dr |-> DaysRemaining(ParseDate(r.due), t), status |-> r.status]

FetchDerive ==
    /\ pc = "queried"
    /\ IF \E i \in DOMAIN raw : ~ValidDate(raw[i].due)
       THEN /\ Raise("parse")
            /\ UNCHANGED df
       ELSE /\ df' = [i \in DOMAIN raw |-> DeriveRow(raw[i], today)]
            /\ pc' = "fetched"
            /\ UNCHANGED <<outcome, error>>
    /\ UNCHANGED <<other, mail, header, loans, cfg, clock, ticks, today, raw, report_path, files,
                   sheet, summary, outbox, smtp_log, called>>

\* ---- main: nothing due -------------------------------------------------
IsEmpty_Never(t) == FALSE

\* df.empty
IsEmpty(t) == t = <<>>

NoLoansDue ==
    /\ pc = "fetched"
    /\ IsEmpty(df)
    /\ pc' = "done"
    /\ outcome' = "success"
    /\ UNCHANGED <<other, mail, header, loans, cfg, clock, ticks, error, today, raw, df, report_path,
                   files, sheet, summary, outbox, smtp_log, called>>

\* ---- generate_excel_report ------------------------------------------
RowFill_And(status, days_remaining, row_idx) ==
    IF status = "Overdue" /\ days_remaining < 0 THEN "overdue"
    ELSE IF row_idx % 2 = 0 THEN "alt"
    ELSE "white"

RowFill(status, days_remaining, row_idx) ==
    IF status = "Overdue" \/ days_remaining < 0 THEN "overdue"
    ELSE IF row_idx % 2 = 0 THEN "alt"
    ELSE "white"

DaysFont_ZeroOverdue(value) ==
    IF value <= 0 THEN "overdue"
    ELSE IF value <= 3 THEN "warning"
    ELSE "normal"

DaysFont(value) ==
    IF value < 0 THEN "overdue"
    ELSE IF value <= 3 THEN "warning"
    ELSE "normal"

StatusFont(value) == IF value = "Overdue" THEN "red" ELSE "green"

SheetRow(r, row_idx) ==
    [id |-> r.id, due |-> IsoText(r.due), dr |-> r.dr, status |-> r.status,
     fill |-> RowFill(r.status, r.dr, row_idx),
     dr_font |-> DaysFont(r.dr), status_font |-> StatusFont(r.status)]

DetailSheet(t) == [i \in DOMAIN t |-> SheetRow(t[i], i + 4)]

WithStatus(t, st) == { i \in DOMAIN t : t[i].status = st }
DueToday(t) == { i \in DOMAIN t : t[i].dr = 0 }
Due1to3_FromZero(t) == { i \in DOMAIN t : t[i].dr >= 0 /\ t[i].dr <= 3 }
Due1to3(t) == { i \in DOMAIN t : t[i].dr >= 1 /\ t[i].dr <= 3 }
Due4to7(t) == { i \in DOMAIN t : t[i].dr >= 4 /\ t[i].dr <= 7 }
AlreadyOverdue(t) == { i \in DOMAIN t : t[i].dr < 0 }

SummaryData(t) ==
    [total |-> Len(t),
     active |-> Cardinality(WithStatus(t, "Active")),
     overdue |-> Cardinality(WithStatus(t, "Overdue")),
     due_today |-> Cardinality(DueToday(t)),
     due_1_3 |-> Cardinality(Due1to3(t)),
     due_4_7 |-> Cardinality(Due4to7(t)),
     already_overdue |-> Cardinality(AlreadyOverdue(t))]

\* reports/Loans_Due_Report_<YYYYMMDD>.xlsx
ReportFile(d) == IsoText(d)

\* an exception inside generate_excel_report (os.makedirs, wb.save): main
\* has no handler around the call
RenderFails_Swallowed ==
    /\ pc' = "rendered"
    /\ UNCHANGED <<outcome, error, header, sheet, summary, files, report_path>>

RenderFails ==
    /\ Raise("render")
    /\ UNCHANGED <<header, sheet, summary, files, report_path>>

GenerateExcelReport ==
    /\ pc = "fetched"
    /\ ~IsEmpty(df)
    /\ called' = called \cup {"generate_excel_report"}
    /\ \/ /\ header' = DfColumns
          /\ sheet' = DetailSheet(df)
          /\ summary' = SummaryData(df)
          /\ files' = files \cup {ReportFile(clock)}
          /\ report_path' = ReportFile(clock)
          /\ pc' = "rendered"
          /\ UNCHANGED <<outcome, error>>
       \/ RenderFails
    /\ UNCHANGED <<other, mail, loans, cfg, clock, ticks, today, raw, df, outbox, smtp_log>>

\* ---- build_email_body, send_email -------------------------------------
EmailRowColor(status, idx) ==
    IF status = "Overdue" THEN "overdue"
    ELSE IF idx % 2 = 0 THEN "white"
    ELSE "alt"

EmailRow(r, idx) ==
    [id |-> r.id, due |-> IsoText(r.due), dr |-> r.dr, status |-> r.status,
     color |-> EmailRowColor(r.status, idx),
     dr_font |-> DaysFont(r.dr), status_font |-> StatusFont(r.status)]

\* <th> texts of the detail table
EmailColumns ==
    <<"Customer Name", "Loan ID", "Amount Borrowed", "Outstanding Balance",
      "Due Date", "Days Remaining", "Phone", "Loan Officer / Branch", "Status">>

\* the df column each <td> of a row prints
EmailCells ==
    <<"Customer Name", "Loan ID", "Amount Borrowed", "Outstanding Balance",
      "Due Date", "Days Remaining", "Phone Number", "Loan Officer / Branch",
      "Loan Status">>

BuildEmailBody(t, d) ==
    [generated |-> IsoText(d), columns |-> EmailColumns, cells |-> EmailCells,
     rows |-> [i \in DOMAIN t |-> EmailRow(t[i], i - 1)]]

SmtpCommands == <<"ehlo", "starttls", "login", "sendmail">>

Message(t, d, path) ==
    [subject_date |-> IsoText(d), body |-> BuildEmailBody(t, d), attachment |-> path]

\* send_email raises after k SMTP commands went through; main's handler
\* logs the error and the report path and re-raises
SendFails_RemovesReport ==
    /\ \E k \in 0..(Len(SmtpCommands) - 1) :
          smtp_log' = SubSeq(SmtpCommands, 1, k)
    /\ Raise("delivery")
    /\ files' = files \ {report_path}
    /\ UNCHANGED outbox

SendFails ==
    /\ \E k \in 0..(Len(SmtpCommands) - 1) :
          smtp_log' = SubSeq(SmtpCommands, 1, k)
    /\ Raise("delivery")
    /\ UNCHANGED <<outbox, files>>

SendEmail ==
    /\ pc = "rendered"
    /\ called' = called \cup {"send_email"}
    /\ \/ /\ report_path \in files
          /\ smtp_log' = SmtpCommands
          /\ outbox' = Append(outbox, Message(df, clock, report_path))
          /\ pc' = "sent"
          /\ UNCHANGED <<outcome, error, files>>
       \/ SendFails
    /\ UNCHANGED <<other, mail, header, loans, cfg, clock, ticks, today, raw, df, report_path,
                   sheet, summary>>

\* ---- main: clean up the local copy ------------------------------------
Cleanup ==
    /\ pc = "sent"
    /\ IF ~cfg.save_local_copy /\ report_path \in files
       THEN /\ called' = called \cup {"os.remove"}
            /\ \/ /\ files' = files \ {report_path}
                  /\ pc' = "done"
                  /\ outcome' = "success"
                  /\ UNCHANGED error
               \/ /\ Raise("remove")
                  /\ UNCHANGED files
       ELSE /\ pc' = "done"
            /\ outcome' = "success"
            /\ UNCHANGED <<error, files, called>>
    /\ UNCHANGED <<other, mail, header, loans, cfg, clock, ticks, today, raw, df, report_path,
                   sheet, summary, outbox, smtp_log>>

Next ==
    \/ Tick
    \/ GetDbConnection
    \/ FetchQuery
    \/ FetchDerive
    \/ NoLoansDue
    \/ GenerateExcelReport
    \/ SendEmail
    \/ Cleanup

Spec == Init /\ [][Next]_vars

\* ---- two runs of main sharing the reports directory --------------------
\* The second run is followed through what it does to reports/: it writes
\* its workbook under the name stamped with its own date.today(), and after
\* its delivery removes it when its save_local_copy is false.
pipeline == <<loans, cfg, clock, ticks, pc, outcome, error, today, raw, df,
              report_path, sheet, summary, outbox, smtp_log, called, header>>

OtherRender ==
    /\ other.pc = "start"
    /\ files' = files \cup {ReportFile(clock)}
    /\ other' = [other EXCEPT !.pc = "rendered", !.path = ReportFile(clock)]
    /\ UNCHANGED <<pipeline, mail>>

OtherCleanup ==
    /\ other.pc = "rendered"
    /\ files' = IF ~other.save_local_copy THEN files \ {other.path} ELSE files
    /\ other' = [other EXCEPT !.pc = "done"]
    /\ UNCHANGED <<pipeline, mail>>

InitTwoRuns ==
    /\ InitPipeline
    /\ other \in [pc : {"start"}, path : {NoPath}, save_local_copy : BOOLEAN]
    /\ mail = NoSession

NextTwoRuns ==
    \/ Next
    \/ OtherRender
    \/ OtherCleanup

SpecTwoRuns == InitTwoRuns /\ [][NextTwoRuns]_vars

\* ---- the SMTP session of send_email, command by command ---------------
\* script: which send_email runs (loan_monitor.py or generate_due_report.py);
\* use_tls: the configured use-encryption setting (config.SMTP_USE_TLS; for
\* loan_monitor.py the setting of the same meaning in config.ini, which its
\* send_email never reads); port: the configured SMTP port.
MailScripts == {"loan_monitor", "generate_due_report"}
MailPorts == {25, 465, 587}

\* loan_monitor.py: smtplib.SMTP, then the commands of the with block
LoanMonitorCommands == <<"SMTP">> \o SmtpCommands

\* generate_due_report.py: the branch on config.SMTP_USE_TLS
DueReportCommands(use_tls) ==
    IF use_tls
    THEN <<"SMTP", "starttls", "login", "send_message">>
    ELSE <<"SMTP_SSL", "login", "send_message">>

\* the commands the chosen send_email issues, in order
MailCommands(m) ==
    IF m.script = "loan_monitor"
    THEN LoanMonitorCommands
    ELSE DueReportCommands(m.use_tls)

\* the next command goes through
MailStep ==
    /\ mail.state \in {"ready", "open"}
    /\ Len(mail.log) < Len(MailCommands(mail))
    /\ mail' = [mail EXCEPT !.log = Append(@, MailCommands(mail)[Len(@) + 1]),
                            !.state = "open"]
    /\ UNCHANGED <<pipeline, files, other>>

\* the next command raises (connection refused, STARTTLS not offered,
\* authentication failure, recipient refused): send_email is left
MailFail ==
    /\ mail.state \in {"ready", "open"}
    /\ Len(mail.log) < Len(MailCommands(mail))
    /\ mail' = [mail EXCEPT !.state = "failed"]
    /\ UNCHANGED <<pipeline, files, other>>

\* the with block is left after the last command
MailClose ==
    /\ mail.state = "open"
    /\ Len(mail.log) = Len(MailCommands(mail))
    /\ mail' = [mail EXCEPT !.state = "closed"]
    /\ UNCHANGED <<pipeline, files, other>>

InitDelivery ==
    /\ InitPipeline
    /\ loans = <<>>
    /\ cfg = [days_ahead |-> 7, include_overdue |-> TRUE, save_local_copy |-> TRUE]
    /\ other = NoOtherRun
    /\ mail \in [script : MailScripts, use_tls : BOOLEAN, port : MailPorts,
                  log : {<<>>}, state : {"ready"}]

NextDelivery ==
    \/ MailStep
    \/ MailFail
    \/ MailClose

SpecDelivery == InitDelivery /\ [][NextDelivery]_vars
\* ======================================================================
\* Properties
\* ======================================================================

\* fetch_due_loans has returned its DataFrame to main
FetchReturned ==
    \/ pc \in {"fetched", "rendered", "sent"}
    \/ pc = "done" /\ error \notin {"connect", "query", "parse"}

\* generate_excel_report has returned a path to main
RenderReturned == report_path # NoPath

IdsOf(t) == { t[i].id : i \in DOMAIN t }

\* the loan's due date lies in the window of the run, by calendar arithmetic
DueInWindow(id) ==
    /\ ValidDate(loans[id].due)
    /\ ParseDate(loans[id].due) <= today + cfg.days_ahead
    /\ cfg.include_overdue \/ today <= ParseDate(loans[id].due)

\* C1: fetch_due_loans returns exactly the loans that are not 'Paid' and whose
\* due date is <= today + w (overdue included) or within [today, today + w]
\* (overdue excluded); no returned record is 'Paid', none that qualifies is
\* missing, none is returned twice.
C1_FetchReturnsExactlyDueLoans ==
    FetchReturned =>
        /\ IdsOf(df) = { id \in DOMAIN loans :
                           loans[id].status # "Paid" /\ DueInWindow(id) }
        /\ Len(df) = Cardinality(IdsOf(df))
        /\ \A i \in DOMAIN df :
             /\ df[i].status # "Paid"
             /\ df[i].status = loans[df[i].id].status
             /\ df[i].due <= today + cfg.days_ahead
             /\ cfg.include_overdue \/ today <= df[i].due

\* overdue excluded: a past-due unpaid loan is left out, a due one is returned
C1_Witness ==
    /\ FetchReturned
    /\ ~cfg.include_overdue
    /\ df # <<>>
    /\ \E id \in DOMAIN loans :
          /\ loans[id].status # "Paid"
          /\ ValidDate(loans[id].due)
          /\ ParseDate(loans[id].due) < today
          /\ id \notin IdsOf(df)

\* C2: Days Remaining of every returned record is (due date - reference date)
\* in days, the reference date being the one fetch_due_loans captured at its
\* start and computed the cutoff from; it is negative exactly when the due
\* date is before the reference date.
C2_DaysRemainingFromReferenceDate ==
    FetchReturned =>
        \A i \in DOMAIN df :
            /\ df[i].dr = ParseDate(loans[df[i].id].due) - today
            /\ (df[i].dr < 0) <=> (ParseDate(loans[df[i].id].due) < today)
            /\ df[i].dr <= cfg.days_ahead
            /\ cfg.include_overdue \/ df[i].dr >= 0

\* the date changed after the capture and an overdue record was returned
C2_Witness ==
    /\ FetchReturned
    /\ clock # today
    /\ \E i \in DOMAIN df : df[i].dr < 0
    /\ \E i \in DOMAIN df : df[i].dr > 0

\* C3: a data row of the detail sheet has the overdue background if and only
\* if its Loan Status is 'Overdue' or its Days Remaining is negative.
C3_OverdueRowFill ==
    RenderReturned =>
        \A i \in DOMAIN sheet :
            (sheet[i].fill = "overdue")
                <=> (df[i].status = "Overdue" \/ df[i].dr < 0)

\* an Active record two days past due and an Overdue record due in five days,
\* both flagged
C3_Witness ==
    /\ RenderReturned
    /\ \E i \in DOMAIN sheet :
          sheet[i].status = "Active" /\ sheet[i].dr = -2 /\ sheet[i].fill = "overdue"
    /\ \E i \in DOMAIN sheet :
          sheet[i].status = "Overdue" /\ sheet[i].dr = 5 /\ sheet[i].fill = "overdue"

\* C4: when fetch_due_loans returns an empty table, main returns normally
\* without calling generate_excel_report or send_email: no file, no message.
C4_EmptyResultEndsQuietly ==
    (FetchReturned /\ df = <<>>) =>
        /\ pc \in {"fetched", "done"}
        /\ pc = "fetched" => ENABLED NoLoansDue
        /\ pc = "done" => outcome = "success" /\ error = "none"
        /\ called = {}
        /\ files = {}
        /\ report_path = NoPath
        /\ outbox = <<>>
        /\ smtp_log = <<>>

\* main has returned on the nothing-due path although loans are stored
C4_Witness ==
    /\ FetchReturned
    /\ df = <<>>
    /\ pc = "done"
    /\ outcome = "success"
    /\ loans # <<>>
\* C5: when send_email fails after the report was rendered, main ends in
\* failure, nothing was sent, and the report file still exists at the path
\* generate_excel_report returned, whatever save_local_copy is.
C5_DeliveryFailureKeepsReport ==
    error = "delivery" =>
        /\ pc = "done"
        /\ outcome = "failure"
        /\ RenderReturned
        /\ report_path \in files
        /\ outbox = <<>>
        /\ "os.remove" \notin called

\* the login was refused (ehlo and starttls went through) and the local copy
\* was not to be kept
C5_Witness ==
    /\ error = "delivery"
    /\ smtp_log = <<"ehlo", "starttls">>
    /\ ~cfg.save_local_copy
    /\ report_path \in files

\* C6: if the connection, fetch_due_loans or generate_excel_report fails, main
\* ends in failure and send_email is never invoked; send_email is invoked only
\* after selection and rendering have both returned.
C6_NoSendAfterEarlyFailure ==
    /\ error \in {"connect", "query", "parse", "render"} =>
          /\ pc = "done"
          /\ outcome = "failure"
          /\ "send_email" \notin called
          /\ outbox = <<>>
          /\ smtp_log = <<>>
    /\ ("send_email" \in called \/ outbox # <<>> \/ smtp_log # <<>>) =>
          /\ FetchReturned
          /\ RenderReturned
          /\ "generate_excel_report" \in called
          /\ Len(sheet) = Len(df)

\* generate_excel_report was called and raised
C6_Witness ==
    /\ error = "render"
    /\ outcome = "failure"
    /\ "generate_excel_report" \in called
    /\ df # <<>>

\* C7 (as claimed): after a successful delivery main returns normally, the
\* report kept when save_local_copy is true and deleted when it is false,
\* unless the deletion itself failed, which is not escalated.
C7_CleanupNeverEscalates ==
    (pc = "done" /\ outbox # <<>>) =>
        /\ outcome = "success"
        /\ cfg.save_local_copy => report_path \in files
        /\ (~cfg.save_local_copy /\ error # "remove") => report_path \notin files

\* C8 (as claimed): a row whose due date cannot be parsed is left out and the
\* run goes on with every other row of the query result.
C8_MalformedRowSkipped ==
    /\ error # "parse"
    /\ FetchReturned =>
          IdsOf(df) = { raw[i].id : i \in { j \in DOMAIN raw : ValidDate(raw[j].due) } }

\* C9: the four day buckets of the summary are pairwise disjoint and their
\* counts add up to the number of records with days_remaining <= 7; a record
\* with days_remaining > 7 is in no bucket, but it is a row of the detail sheet
\* and is counted in the total.
C9_BucketsPartitionUpTo7 ==
    RenderReturned =>
        LET B == <<AlreadyOverdue(df), DueToday(df), Due1to3(df), Due4to7(df)>>
        IN  /\ \A a, b \in 1..4 : a # b => B[a] \cap B[b] = {}
            /\ summary.already_overdue + summary.due_today
                 + summary.due_1_3 + summary.due_4_7
               = Cardinality({ i \in DOMAIN df : df[i].dr <= 7 })
            /\ summary.already_overdue = Cardinality({ i \in DOMAIN df : df[i].dr < 0 })
            /\ summary.due_today = Cardinality({ i \in DOMAIN df : df[i].dr = 0 })
            /\ summary.total = Len(df)
            /\ Len(sheet) = Len(df)
            /\ \A i \in DOMAIN df :
                 df[i].dr > 7 =>
                    /\ \A a \in 1..4 : i \notin B[a]
                    /\ sheet[i].id = df[i].id
                    /\ sheet[i].dr = df[i].dr

\* a record due today next to one due in more than seven days
C9_Witness ==
    /\ RenderReturned
    /\ \E i \in DOMAIN df : df[i].dr > 7
    /\ \E i \in DOMAIN df : df[i].dr = 0
    /\ summary.due_today = 1
    /\ summary.total = 2

RowIds(t) == [i \in DOMAIN t |-> t[i].id]

Ascending(t) ==
    \A i \in 1..(Len(t) - 1) : ParseDate(t[i].due) <= ParseDate(t[i + 1].due)

\* C10: the rows of the detail sheet and of the email detail table are in
\* ascending due-date order and in exactly the order the query returned them:
\* nothing in between reorders, drops or duplicates a row.
C10_OutputKeepsQueryOrder ==
    /\ FetchReturned => RowIds(df) = RowIds(raw)
    /\ RenderReturned =>
          /\ RowIds(sheet) = RowIds(raw)
          /\ Ascending(sheet)
          /\ \A i \in DOMAIN sheet : sheet[i].due = raw[i].due
    /\ \A k \in DOMAIN outbox :
          /\ RowIds(outbox[k].body.rows) = RowIds(raw)
          /\ Ascending(outbox[k].body.rows)
          /\ \A i \in DOMAIN raw : outbox[k].body.rows[i].due = raw[i].due

\* two records with the same due date, returned by the query in the order
\* (loan 2, loan 1), rendered and delivered in that order
C10_Witness ==
    /\ outbox # <<>>
    /\ Len(raw) = 2
    /\ raw[1].due = raw[2].due
    /\ raw[1].id = 2
    /\ RowIds(sheet) = <<2, 1>>
    /\ RowIds(outbox[1].body.rows) = <<2, 1>>
\* C14 (as claimed): a detail row of the email body has the overdue background
\* when its status is 'Overdue' or its days_remaining is negative, so the email
\* body and the detail sheet agree, row by row, on the overdue flag.
C14_EmailFlagAgreesWithSheet ==
    \A k \in DOMAIN outbox :
        \A i \in DOMAIN outbox[k].body.rows :
            /\ (outbox[k].body.rows[i].color = "overdue")
                  <=> (df[i].status = "Overdue" \/ df[i].dr < 0)
            /\ (outbox[k].body.rows[i].color = "overdue")
                  <=> (sheet[i].fill = "overdue")

\* C15 (as claimed): a record whose status is none of 'Active', 'Overdue',
\* 'Paid' is a row of the detail outputs with its status unchanged, is counted
\* in the total, and is neither counted nor styled as an Active or an Overdue
\* loan.
C15_OtherStatusPassesThrough ==
    RenderReturned =>
        /\ summary.total = Len(df)
        /\ summary.active = Cardinality({ i \in DOMAIN df : df[i].status = "Active" })
        /\ summary.overdue = Cardinality({ i \in DOMAIN df : df[i].status = "Overdue" })
        /\ \A i \in DOMAIN df :
             loans[df[i].id].status \notin {"Active", "Overdue", "Paid"} =>
                /\ sheet[i].status = loans[df[i].id].status
                /\ sheet[i].status_font \notin {StatusFont("Active"), StatusFont("Overdue")}
                /\ \A k \in DOMAIN outbox :
                     /\ outbox[k].body.rows[i].status = loans[df[i].id].status
                     /\ outbox[k].body.rows[i].status_font
                          \notin {StatusFont("Active"), StatusFont("Overdue")}

\* C16: the emphasis of the Days Remaining cell follows its value alone
\* (negative: overdue, 0..3: warning, above 3: normal); one Active record due
\* today gets the warning emphasis, no overdue row fill, is counted in Due
\* Today and in neither Already Overdue nor Overdue Loans.
C16_DaysRemainingEmphasis ==
    RenderReturned =>
        /\ \A i \in DOMAIN sheet :
             /\ df[i].dr < 0 => sheet[i].dr_font = "overdue"
             /\ (df[i].dr >= 0 /\ df[i].dr <= 3) => sheet[i].dr_font = "warning"
             /\ df[i].dr > 3 => sheet[i].dr_font = "normal"
        /\ (Len(df) = 1 /\ df[1].dr = 0 /\ df[1].status = "Active") =>
             /\ sheet[1].dr_font = "warning"
             /\ sheet[1].fill # "overdue"
             /\ summary.due_today = 1
             /\ summary.already_overdue = 0
             /\ summary.overdue = 0

\* the single Active record due today, rendered
C16_Witness ==
    /\ RenderReturned
    /\ Len(df) = 1
    /\ df[1].dr = 0
    /\ df[1].status = "Active"
    /\ sheet[1].dr_font = "warning"
    /\ summary.due_today = 1

\* C17 (as claimed): the date in the report file name, in the email body and
\* in the email subject is the date fetch_due_loans used, also when the
\* calendar date changes between the stages.
C17_OneReferenceDate ==
    /\ RenderReturned => report_path = IsoText(today)
    /\ \A k \in DOMAIN outbox :
          /\ outbox[k].subject_date = IsoText(today)
          /\ outbox[k].body.generated = IsoText(today)
          /\ outbox[k].attachment = IsoText(today)
\* the canonical column order
CanonicalColumns ==
    <<"Customer Name", "Loan ID", "Amount Borrowed", "Outstanding Balance",
      "Due Date", "Days Remaining", "Phone Number", "Email",
      "Loan Officer / Branch", "Loan Status">>

C11_UniqueReportPaths ==
    /\ (RenderReturned /\ other.path # NoPath) => report_path # other.path
    /\ pc \in {"rendered", "sent"} => report_path \in files
\* position of the first occurrence of a command in the session log (0: none)
FirstAt(log, cmds) ==
    IF \E i \in DOMAIN log : log[i] \in cmds
    THEN CHOOSE i \in DOMAIN log :
            log[i] \in cmds /\ \A j \in 1..(i - 1) : log[j] \notin cmds
    ELSE 0

\* C12 (as claimed): in every delivery attempt the login comes only after the
\* connection is encrypted (STARTTLS done, or a direct SSL connection), the
\* message is sent only after the login, and which of the two encryption modes
\* is used follows the configured use-encryption setting.
C12_EncryptThenLoginByConfig ==
    LET log == mail.log
        enc == FirstAt(log, {"starttls", "SMTP_SSL"})
        login == FirstAt(log, {"login"})
        send == FirstAt(log, {"sendmail", "send_message"})
    IN  /\ login # 0 => (enc # 0 /\ enc < login)
        /\ send # 0 => (login # 0 /\ login < send)
        /\ enc # 0 => (log[enc] = (IF mail.use_tls THEN "starttls" ELSE "SMTP_SSL"))
====
